---- MODULE Spec2Model ----
(***************************************************************************)
(* ContentionBenchmark (src/main.cpp): four PriorityMutex strategies and   *)
(* the ContentionTest harness that drives one low-priority and one         *)
(* high-priority worker against one strategy instance.                     *)
(*                                                                         *)
(* A behaviour of the model is a sequence of calls of ContentionTest::run,  *)
(* as the loop of main makes them on the strategy instances it constructed *)
(* once.  A step is one statement of a worker or of the controller that    *)
(* touches shared state (a mutex, a flag, the condition variable).  The    *)
(* durations a ContentionTest is constructed with are kept, but time is    *)
(* not modelled: every interleaving of the three threads is a behaviour.   *)
(***************************************************************************)
EXTENDS Integers, FiniteSets

VARIABLES
  strategy,              \* which PriorityMutex the run was constructed with
  lowPrioWorkTime_,      \* ContentionTest::lowPrioWorkTime_, microseconds
  highPrioWorkTime_,     \* ContentionTest::highPrioWorkTime_, microseconds
  highPrioSleepTime_,    \* ContentionTest::highPrioSleepTime_, microseconds
  ctl,                   \* position of the controller inside run()
  shouldRun_,            \* ContentionTest::shouldRun_
  pc,                    \* position of each worker thread
  mutex_,                \* BasicPriorityMutex::mutex_ (owner)
  dataMutex_,            \* dataMutex_ of the other three strategies (owner)
  nextToAccessMutex_,    \* TwoMutexPriorityMutex::nextToAccessMutex_ (owner)
  waiting_,              \* MutexAndAtomicBoolPriorityMutex::waiting_
  dataHeld_,             \* MutexAndTwoBoolPriorityMutex::dataHeld_
  highPriorityWaiting_,  \* MutexAndTwoBoolPriorityMutex::highPriorityWaiting_
  lowPriorityLock_,      \* unique_lock lowPriorityLock_: owns_lock()
  highPriorityLock_,     \* unique_lock highPriorityLock_: owns_lock()
  cv_,                   \* threads blocked inside cv_.wait
  overtakes,             \* history: lockLowPriority returns since lockHighPriority was entered
  lowHeldAtCall,         \* history: the low critical region that was open when lockHighPriority was entered is still open
  pairsAfterStop         \* history: unlock calls each worker has completed since shouldRun_ became false

vars == <<strategy, lowPrioWorkTime_, highPrioWorkTime_, highPrioSleepTime_, ctl, shouldRun_, pc, mutex_, dataMutex_, nextToAccessMutex_,
          waiting_, dataHeld_, highPriorityWaiting_, lowPriorityLock_,
          highPriorityLock_, cv_, overtakes, lowHeldAtCall, pairsAfterStop>>

\* The arguments of the ContentionTest constructor, fixed for a run.
CtorArgs == <<strategy, lowPrioWorkTime_, highPrioWorkTime_, highPrioSleepTime_>>

\* Durations, in microseconds, a ContentionTest is constructed with.
Durations == {-1, 0, 1}

\* Saturation point of the overtakes history counter.
MaxOvertakes == 3

\* Saturation point of the pairsAfterStop history counter.
MaxPairs == 2

Low == "low"
High == "high"
Threads == {Low, High}
Other(t) == IF t = Low THEN High ELSE Low

Plain == "BasicPriorityMutex"
Gated == "TwoMutexPriorityMutex"
Flagged == "MutexAndAtomicBoolPriorityMutex"
Preferenced == "MutexAndTwoBoolPriorityMutex"
Strategies == {Plain, Gated, Flagged, Preferenced}

\* Positions of a worker outside every lock/unlock call.
OutLabels == {"notStarted", "loop", "sleep", "finished", "terminated"}
\* Positions of the high-priority worker inside lockHighPriority.
HighLockLabels == {"flag", "lock", "gate", "data", "ungate", "clear", "pending",
                   "pred", "wait", "hold", "unlock"}
HighInLock == pc[High] \in HighLockLabels

Min(a, b) == IF a < b THEN a ELSE b

Goto(t, l) == pc' = [pc EXCEPT ![t] = l]

----------------------------------------------------------------------------
(* History variables.  They record events of the run and guard nothing.    *)

\* A worker that comes back to the top of its loop has completed an unlock
\* call; the ones completed while shouldRun_ is false are counted.
StopHistory ==
  pairsAfterStop' =
    [t \in Threads |->
       IF ~shouldRun_ /\ pc[t] \notin {"notStarted", "loop"} /\ pc'[t] = "loop"
       THEN Min(pairsAfterStop[t] + 1, MaxPairs)
       ELSE pairsAfterStop[t]]

GhostKeep ==
  /\ UNCHANGED <<overtakes, lowHeldAtCall>>
  /\ StopHistory

\* lockLowPriority returns.
GhostLowAcquired ==
  /\ overtakes' = IF HighInLock THEN Min(overtakes + 1, MaxOvertakes) ELSE overtakes
  /\ UNCHANGED lowHeldAtCall
  /\ StopHistory

\* unlockLowPriority gives the resource up.
GhostLowReleased ==
  /\ lowHeldAtCall' = FALSE
  /\ UNCHANGED overtakes
  /\ StopHistory

\* lockHighPriority is entered.
GhostHighCall ==
  /\ overtakes' = 0
  /\ lowHeldAtCall' = (pc[Low] = "cs")
  /\ StopHistory

\* A new run starts.
GhostNewRun ==
  /\ overtakes' = 0
  /\ lowHeldAtCall' = FALSE
  /\ pairsAfterStop' = [t \in Threads |-> 0]

----------------------------------------------------------------------------
(* State after construction of the strategy instance and of ContentionTest *)

Init ==
  /\ strategy \in Strategies
  /\ lowPrioWorkTime_ \in Durations
  /\ highPrioWorkTime_ \in Durations
  /\ highPrioSleepTime_ \in Durations
  /\ ctl = "spawnLow"
  /\ shouldRun_ = TRUE
  /\ pc = [t \in Threads |-> "notStarted"]
  /\ mutex_ = "none"
  /\ dataMutex_ = "none"
  /\ nextToAccessMutex_ = "none"
  /\ waiting_ = FALSE
  /\ dataHeld_ = FALSE
  /\ highPriorityWaiting_ = FALSE
  /\ lowPriorityLock_ = FALSE
  /\ highPriorityLock_ = FALSE
  /\ cv_ = {}
  /\ overtakes = 0
  /\ lowHeldAtCall = FALSE
  /\ pairsAfterStop = [t \in Threads |-> 0]

StrategyVars == <<mutex_, dataMutex_, nextToAccessMutex_, waiting_, dataHeld_,
                  highPriorityWaiting_, lowPriorityLock_, highPriorityLock_, cv_>>

----------------------------------------------------------------------------
(* ContentionTest::run, the controller thread                              *)

CtlSpawnLow ==
  /\ ctl = "spawnLow"
  /\ ctl' = "spawnHigh"
  /\ Goto(Low, "loop")
  /\ UNCHANGED <<CtorArgs, shouldRun_, StrategyVars>>
  /\ GhostKeep

CtlSpawnHigh ==
  /\ ctl = "spawnHigh"
  /\ ctl' = "sleep"
  /\ Goto(High, "loop")
  /\ UNCHANGED <<CtorArgs, shouldRun_, StrategyVars>>
  /\ GhostKeep

\* run() goes on to the joins without the store to shouldRun_.
CtlStopKeepsFlag ==
  /\ ctl = "sleep"
  /\ ctl' = "joinLow"
  /\ UNCHANGED <<CtorArgs, shouldRun_, pc, StrategyVars>>
  /\ GhostKeep

\* sleep_for(kTestDurationSeconds) ends; shouldRun_ = false
CtlStop ==
  /\ ctl = "sleep"
  /\ ctl' = "joinLow"
  /\ shouldRun_' = FALSE
  /\ UNCHANGED <<CtorArgs, pc, StrategyVars>>
  /\ GhostKeep

CtlJoinLow ==
  /\ ctl = "joinLow"
  /\ pc[Low] = "finished"
  /\ ctl' = "joinHigh"
  /\ UNCHANGED <<CtorArgs, shouldRun_, pc, StrategyVars>>
  /\ GhostKeep

\* thr2.join() and the return of run()
CtlJoinHigh ==
  /\ ctl = "joinHigh"
  /\ pc[High] = "finished"
  /\ ctl' = "done"
  /\ UNCHANGED <<CtorArgs, shouldRun_, pc, StrategyVars>>
  /\ GhostKeep

\* The position of a strategy in the vector priorityMutexes of main, and the
\* strategy after it; after the last one the sweep takes the next durations
\* and starts again with the first.
NextStrategy(m) ==
  IF m = Plain THEN Gated
  ELSE IF m = Gated THEN Flagged
  ELSE IF m = Flagged THEN Preferenced
  ELSE Plain

\* The loop of main: run() has returned, the ContentionTest is destroyed and
\* the next one is constructed on the next strategy instance of the vector.
\* The instances themselves are created once, before the loop, and nothing
\* touches them between two runs.
CtlNextRun ==
  /\ ctl = "done"
  /\ ctl' = "spawnLow"
  /\ strategy' = NextStrategy(strategy)
  /\ IF strategy' = Plain
     THEN /\ lowPrioWorkTime_' \in Durations
          /\ highPrioWorkTime_' \in Durations
          /\ highPrioSleepTime_' \in Durations
     ELSE UNCHANGED <<lowPrioWorkTime_, highPrioWorkTime_, highPrioSleepTime_>>
  /\ shouldRun_' = TRUE
  /\ pc' = [t \in Threads |-> "notStarted"]
  /\ UNCHANGED StrategyVars
  /\ GhostNewRun

----------------------------------------------------------------------------
(* The worker loops                                                        *)

\* First position inside lockLowPriority / lockHighPriority.
FirstLockLabel == IF strategy = Gated THEN "gate" ELSE "lock"

\* A loop that never reads shouldRun_.
LowLoopIgnoresFlag ==
  /\ pc[Low] = "loop"
  /\ Goto(Low, FirstLockLabel)
  /\ UNCHANGED <<CtorArgs, ctl, shouldRun_, StrategyVars>>
  /\ GhostKeep

\* A loop body that starts with the work, without lockLowPriority.
LowLoopSkipsLock ==
  /\ pc[Low] = "loop"
  /\ Goto(Low, IF shouldRun_ THEN "cs" ELSE "finished")
  /\ UNCHANGED <<CtorArgs, ctl, shouldRun_, StrategyVars>>
  /\ GhostKeep

\* while (shouldRun_) of the low-priority worker: enter lockLowPriority, or
\* leave the loop and store the result.
LowLoop ==
  /\ pc[Low] = "loop"
  /\ Goto(Low, IF shouldRun_ THEN FirstLockLabel ELSE "finished")
  /\ UNCHANGED <<CtorArgs, ctl, shouldRun_, StrategyVars>>
  /\ GhostKeep

\* while (shouldRun_) of the high-priority worker.
HighLoop ==
  /\ pc[High] = "loop"
  /\ Goto(High, IF shouldRun_ THEN "sleep" ELSE "finished")
  /\ UNCHANGED <<CtorArgs, ctl, shouldRun_, StrategyVars>>
  /\ GhostKeep

\* First position inside lockHighPriority: in the Flagged strategy the
\* store waiting_ = true comes before the lock().
HighFirstLabel == IF strategy = Flagged THEN "flag" ELSE FirstLockLabel

\* The sleep ends, startTime is taken and lockHighPriority is entered; none
\* of its statements has run yet.
HighCall ==
  /\ pc[High] = "sleep"
  /\ Goto(High, HighFirstLabel)
  /\ UNCHANGED <<CtorArgs, ctl, shouldRun_, StrategyVars>>
  /\ GhostHighCall

----------------------------------------------------------------------------
(* Plain and Gated.  Each method is a function from the strategy's state   *)
(* (the position of both workers inside the lock protocol and the owners   *)
(*  of its mutexes) to the set of states its next statement can produce:   *)
(* empty when the statement blocks or the worker is not inside the method. *)

PosOf(l) == IF l \in OutLabels THEN "out" ELSE l

PlainView == [pos |-> [t \in Threads |-> PosOf(pc[t])], mutex |-> mutex_]

GatedView == [pos |-> [t \in Threads |-> PosOf(pc[t])],
              gate |-> nextToAccessMutex_, data |-> dataMutex_]

\* A lockLowPriority that stands back while lockHighPriority is waiting.
BasicLockLowPriorityYields(s) ==
  IF s.pos[Low] = "lock" /\ s.mutex = "none" /\ s.pos[High] # "lock"
  THEN {[s EXCEPT !.pos[Low] = "cs", !.mutex = Low]}
  ELSE {}

\* BasicPriorityMutex::lockLowPriority: mutex_.lock()
BasicLockLowPriority(s) ==
  IF s.pos[Low] = "lock" /\ s.mutex = "none"
  THEN {[s EXCEPT !.pos[Low] = "cs", !.mutex = Low]}
  ELSE {}

\* BasicPriorityMutex::unlockLowPriority: mutex_.unlock()
BasicUnlockLowPriority(s) ==
  IF s.pos[Low] = "cs"
  THEN {[s EXCEPT !.pos[Low] = "out", !.mutex = "none"]}
  ELSE {}

\* lockHighPriority with a lock() that does not wait for the mutex.
BasicLockHighPriorityNoBlock(s) ==
  IF s.pos[High] = "lock"
  THEN {[s EXCEPT !.pos[High] = "cs", !.mutex = High]}
  ELSE {}

\* BasicPriorityMutex::lockHighPriority: mutex_.lock()
BasicLockHighPriority(s) ==
  IF s.pos[High] = "lock" /\ s.mutex = "none"
  THEN {[s EXCEPT !.pos[High] = "cs", !.mutex = High]}
  ELSE {}

\* BasicPriorityMutex::unlockHighPriority: mutex_.unlock()
BasicUnlockHighPriority(s) ==
  IF s.pos[High] = "cs"
  THEN {[s EXCEPT !.pos[High] = "out", !.mutex = "none"]}
  ELSE {}

\* lockLowPriority without the gate: dataMutex_.lock() alone.
TwoMutexLockLowPriorityNoGate(s) ==
  IF s.pos[Low] = "gate" /\ s.data = "none"
  THEN {[s EXCEPT !.pos[Low] = "cs", !.data = Low]}
  ELSE {}

\* TwoMutexPriorityMutex::lockLowPriority: nextToAccessMutex_.lock();
\* dataMutex_.lock(); nextToAccessMutex_.unlock()
TwoMutexLockLowPriority(s) ==
  IF s.pos[Low] = "gate" /\ s.gate = "none"
  THEN {[s EXCEPT !.pos[Low] = "data", !.gate = Low]}
  ELSE IF s.pos[Low] = "data" /\ s.data = "none"
  THEN {[s EXCEPT !.pos[Low] = "ungate", !.data = Low]}
  ELSE IF s.pos[Low] = "ungate"
  THEN {[s EXCEPT !.pos[Low] = "cs", !.gate = "none"]}
  ELSE {}

\* TwoMutexPriorityMutex::unlockLowPriority: dataMutex_.unlock()
TwoMutexUnlockLowPriority(s) ==
  IF s.pos[Low] = "cs"
  THEN {[s EXCEPT !.pos[Low] = "out", !.data = "none"]}
  ELSE {}

\* lockHighPriority without its last statement: the gate stays locked.
TwoMutexLockHighPriorityKeepsGate(s) ==
  IF s.pos[High] = "gate" /\ s.gate = "none"
  THEN {[s EXCEPT !.pos[High] = "data", !.gate = High]}
  ELSE IF s.pos[High] = "data" /\ s.data = "none"
  THEN {[s EXCEPT !.pos[High] = "ungate", !.data = High]}
  ELSE IF s.pos[High] = "ungate"
  THEN {[s EXCEPT !.pos[High] = "cs"]}
  ELSE {}

\* TwoMutexPriorityMutex::lockHighPriority
TwoMutexLockHighPriority(s) ==
  IF s.pos[High] = "gate" /\ s.gate = "none"
  THEN {[s EXCEPT !.pos[High] = "data", !.gate = High]}
  ELSE IF s.pos[High] = "data" /\ s.data = "none"
  THEN {[s EXCEPT !.pos[High] = "ungate", !.data = High]}
  ELSE IF s.pos[High] = "ungate"
  THEN {[s EXCEPT !.pos[High] = "cs", !.gate = "none"]}
  ELSE {}

\* TwoMutexPriorityMutex::unlockHighPriority: dataMutex_.unlock()
TwoMutexUnlockHighPriority(s) ==
  IF s.pos[High] = "cs"
  THEN {[s EXCEPT !.pos[High] = "out", !.data = "none"]}
  ELSE {}

\* The worker t moves to where s puts it; a worker that left the protocol
\* is back at the top of its loop.
Moved(t, s) == Goto(t, IF s.pos[t] = "out" THEN "loop" ELSE s.pos[t])

PlainFrame == UNCHANGED <<CtorArgs, ctl, shouldRun_, dataMutex_, nextToAccessMutex_,
                          waiting_, dataHeld_, highPriorityWaiting_,
                          lowPriorityLock_, highPriorityLock_, cv_>>

GatedFrame == UNCHANGED <<CtorArgs, ctl, shouldRun_, mutex_, waiting_, dataHeld_,
                          highPriorityWaiting_, lowPriorityLock_,
                          highPriorityLock_, cv_>>

PlainLowLock ==
  /\ strategy = Plain
  /\ \E s \in BasicLockLowPriority(PlainView) : Moved(Low, s) /\ mutex_' = s.mutex
  /\ PlainFrame
  /\ GhostLowAcquired

\* The work ends and unlockLowPriority runs.
PlainLowUnlock ==
  /\ strategy = Plain
  /\ \E s \in BasicUnlockLowPriority(PlainView) : Moved(Low, s) /\ mutex_' = s.mutex
  /\ PlainFrame
  /\ GhostLowReleased

PlainHighLock ==
  /\ strategy = Plain
  /\ \E s \in BasicLockHighPriority(PlainView) : Moved(High, s) /\ mutex_' = s.mutex
  /\ PlainFrame
  /\ GhostKeep

PlainHighUnlock ==
  /\ strategy = Plain
  /\ \E s \in BasicUnlockHighPriority(PlainView) : Moved(High, s) /\ mutex_' = s.mutex
  /\ PlainFrame
  /\ GhostKeep

GatedLowLock ==
  /\ strategy = Gated
  /\ \E s \in TwoMutexLockLowPriority(GatedView) :
       /\ Moved(Low, s)
       /\ nextToAccessMutex_' = s.gate
       /\ dataMutex_' = s.data
       /\ IF s.pos[Low] = "cs" THEN GhostLowAcquired ELSE GhostKeep
  /\ GatedFrame

GatedLowUnlock ==
  /\ strategy = Gated
  /\ \E s \in TwoMutexUnlockLowPriority(GatedView) :
       /\ Moved(Low, s)
       /\ nextToAccessMutex_' = s.gate
       /\ dataMutex_' = s.data
  /\ GatedFrame
  /\ GhostLowReleased

GatedHighLock ==
  /\ strategy = Gated
  /\ \E s \in TwoMutexLockHighPriority(GatedView) :
       /\ Moved(High, s)
       /\ nextToAccessMutex_' = s.gate
       /\ dataMutex_' = s.data
  /\ GatedFrame
  /\ GhostKeep

GatedHighUnlock ==
  /\ strategy = Gated
  /\ \E s \in TwoMutexUnlockHighPriority(GatedView) :
       /\ Moved(High, s)
       /\ nextToAccessMutex_' = s.gate
       /\ dataMutex_' = s.data
  /\ GatedFrame
  /\ GhostKeep

----------------------------------------------------------------------------
(* The condition variable cv_ of Flagged and Preferenced.  wait(lock)      *)
(* releases the mutex of the handle it is given and blocks the caller;     *)
(* a notified caller re-acquires that mutex before wait returns, and the   *)
(* predicate is then evaluated again.                                      *)

MutexFrame == UNCHANGED <<CtorArgs, ctl, shouldRun_, mutex_, nextToAccessMutex_>>

\* The caller blocks in cv_.wait, releasing dataMutex_.
EnterWait(t) ==
  /\ dataMutex_' = "none"
  /\ cv_' = cv_ \cup {t}
  /\ Goto(t, "wait")

\* A wait that returns to the predicate without dataMutex_.
CvWakeWithoutMutex(t) ==
  /\ pc[t] = "wait"
  /\ t \notin cv_
  /\ Goto(t, "pred")
  /\ MutexFrame
  /\ UNCHANGED <<dataMutex_, waiting_, dataHeld_, highPriorityWaiting_,
                 lowPriorityLock_, highPriorityLock_, cv_>>
  /\ GhostKeep

\* A notified waiter re-acquires dataMutex_ and returns to the predicate.
CvWake(t) ==
  /\ pc[t] = "wait"
  /\ t \notin cv_
  /\ dataMutex_ = "none"
  /\ dataMutex_' = t
  /\ Goto(t, "pred")
  /\ MutexFrame
  /\ UNCHANGED <<waiting_, dataHeld_, highPriorityWaiting_, lowPriorityLock_,
                 highPriorityLock_, cv_>>
  /\ GhostKeep

\* A waiter may wake without a notification.
SpuriousWakeup(t) ==
  /\ pc[t] = "wait"
  /\ t \in cv_
  /\ cv_' = cv_ \ {t}
  /\ MutexFrame
  /\ UNCHANGED <<pc, dataMutex_, waiting_, dataHeld_, highPriorityWaiting_,
                 lowPriorityLock_, highPriorityLock_>>
  /\ GhostKeep

\* An unlock method that returns without cv_.notify_all().
NotifyAllSkipped(t) ==
  /\ strategy \in {Flagged, Preferenced}
  /\ pc[t] = "notify"
  /\ Goto(t, "loop")
  /\ MutexFrame
  /\ UNCHANGED <<dataMutex_, waiting_, dataHeld_, highPriorityWaiting_,
                 lowPriorityLock_, highPriorityLock_, cv_>>
  /\ GhostKeep

\* cv_.notify_all(), the last statement of the four unlock methods of
\* Flagged and Preferenced.
NotifyAll(t) ==
  /\ strategy \in {Flagged, Preferenced}
  /\ pc[t] = "notify"
  /\ cv_' = {}
  /\ Goto(t, "loop")
  /\ MutexFrame
  /\ UNCHANGED <<dataMutex_, waiting_, dataHeld_, highPriorityWaiting_,
                 lowPriorityLock_, highPriorityLock_>>
  /\ GhostKeep

----------------------------------------------------------------------------
(* Flagged: MutexAndAtomicBoolPriorityMutex                                *)

\* A predicate that does not read waiting_.
FlaggedLowPredicateAlways == TRUE

\* The predicate of the wait in lockLowPriority.
FlaggedLowPredicate == ~waiting_

\* lowPriorityLock_.lock()
FlaggedLowLock ==
  /\ strategy = Flagged
  /\ pc[Low] = "lock"
  /\ dataMutex_ = "none"
  /\ dataMutex_' = Low
  /\ lowPriorityLock_' = TRUE
  /\ Goto(Low, "pred")
  /\ MutexFrame
  /\ UNCHANGED <<waiting_, dataHeld_, highPriorityWaiting_, highPriorityLock_, cv_>>
  /\ GhostKeep

\* cv_.wait(lowPriorityLock_, pred) finds the predicate true: lockLowPriority returns.
FlaggedLowEnter ==
  /\ strategy = Flagged
  /\ pc[Low] = "pred"
  /\ FlaggedLowPredicate
  /\ Goto(Low, "cs")
  /\ MutexFrame
  /\ UNCHANGED <<dataMutex_, waiting_, dataHeld_, highPriorityWaiting_,
                 lowPriorityLock_, highPriorityLock_, cv_>>
  /\ GhostLowAcquired

\* cv_.wait(lowPriorityLock_, pred) finds the predicate false and waits.
FlaggedLowWait ==
  /\ strategy = Flagged
  /\ pc[Low] = "pred"
  /\ ~FlaggedLowPredicate
  /\ EnterWait(Low)
  /\ MutexFrame
  /\ UNCHANGED <<waiting_, dataHeld_, highPriorityWaiting_, lowPriorityLock_,
                 highPriorityLock_>>
  /\ GhostKeep

\* The work ends; unlockLowPriority: lowPriorityLock_.unlock()
FlaggedLowUnlock ==
  /\ strategy = Flagged
  /\ pc[Low] = "cs"
  /\ dataMutex_' = "none"
  /\ lowPriorityLock_' = FALSE
  /\ Goto(Low, "notify")
  /\ MutexFrame
  /\ UNCHANGED <<waiting_, dataHeld_, highPriorityWaiting_, highPriorityLock_, cv_>>
  /\ GhostLowReleased

\* lockHighPriority goes to its lock() without the store to waiting_.
FlaggedHighFlagNotSet ==
  /\ strategy = Flagged
  /\ pc[High] = "flag"
  /\ Goto(High, "lock")
  /\ MutexFrame
  /\ UNCHANGED <<dataMutex_, waiting_, dataHeld_, highPriorityWaiting_,
                 lowPriorityLock_, highPriorityLock_, cv_>>
  /\ GhostKeep

\* waiting_ = true, the first statement of lockHighPriority
FlaggedHighSetFlag ==
  /\ strategy = Flagged
  /\ pc[High] = "flag"
  /\ waiting_' = TRUE
  /\ Goto(High, "lock")
  /\ MutexFrame
  /\ UNCHANGED <<dataMutex_, dataHeld_, highPriorityWaiting_, lowPriorityLock_,
                 highPriorityLock_, cv_>>
  /\ GhostKeep

\* highPriorityLock_.lock()
FlaggedHighLock ==
  /\ strategy = Flagged
  /\ pc[High] = "lock"
  /\ dataMutex_ = "none"
  /\ dataMutex_' = High
  /\ highPriorityLock_' = TRUE
  /\ Goto(High, "clear")
  /\ MutexFrame
  /\ UNCHANGED <<waiting_, dataHeld_, highPriorityWaiting_, lowPriorityLock_, cv_>>
  /\ GhostKeep

\* lockHighPriority returns without clearing waiting_.
FlaggedHighKeepsFlag ==
  /\ strategy = Flagged
  /\ pc[High] = "clear"
  /\ Goto(High, "cs")
  /\ MutexFrame
  /\ UNCHANGED <<dataMutex_, waiting_, dataHeld_, highPriorityWaiting_,
                 lowPriorityLock_, highPriorityLock_, cv_>>
  /\ GhostKeep

\* waiting_ = false: lockHighPriority returns.
FlaggedHighClear ==
  /\ strategy = Flagged
  /\ pc[High] = "clear"
  /\ waiting_' = FALSE
  /\ Goto(High, "cs")
  /\ MutexFrame
  /\ UNCHANGED <<dataMutex_, dataHeld_, highPriorityWaiting_, lowPriorityLock_,
                 highPriorityLock_, cv_>>
  /\ GhostKeep

\* The work ends; unlockHighPriority: highPriorityLock_.unlock()
FlaggedHighUnlock ==
  /\ strategy = Flagged
  /\ pc[High] = "cs"
  /\ dataMutex_' = "none"
  /\ highPriorityLock_' = FALSE
  /\ Goto(High, "notify")
  /\ MutexFrame
  /\ UNCHANGED <<waiting_, dataHeld_, highPriorityWaiting_, lowPriorityLock_, cv_>>
  /\ GhostKeep

----------------------------------------------------------------------------
(* Preferenced: MutexAndTwoBoolPriorityMutex                               *)

PrefFrame == UNCHANGED <<CtorArgs, ctl, shouldRun_, mutex_, nextToAccessMutex_, waiting_>>

\* A predicate that does not read highPriorityWaiting_.
PrefLowPredicateIgnoresPending == ~dataHeld_

\* A predicate that does not read dataHeld_.
PrefHighPredicateAlways == TRUE

\* The predicate of the wait in lockLowPriority.
PrefLowPredicate == ~(dataHeld_ \/ highPriorityWaiting_)

\* The predicate of the wait in lockHighPriority.
PrefHighPredicate == ~dataHeld_

\* lowPriorityLock_.lock(), in lockLowPriority and in unlockLowPriority
PrefLowLock ==
  /\ strategy = Preferenced
  /\ pc[Low] \in {"lock", "ulock"}
  /\ dataMutex_ = "none"
  /\ dataMutex_' = Low
  /\ lowPriorityLock_' = TRUE
  /\ Goto(Low, IF pc[Low] = "lock" THEN "pred" ELSE "uclear")
  /\ PrefFrame
  /\ UNCHANGED <<dataHeld_, highPriorityWaiting_, highPriorityLock_, cv_>>
  /\ GhostKeep

\* cv_.wait(lowPriorityLock_, pred) finds the predicate true.
PrefLowPass ==
  /\ strategy = Preferenced
  /\ pc[Low] = "pred"
  /\ PrefLowPredicate
  /\ Goto(Low, "hold")
  /\ PrefFrame
  /\ UNCHANGED <<dataMutex_, dataHeld_, highPriorityWaiting_, lowPriorityLock_,
                 highPriorityLock_, cv_>>
  /\ GhostKeep

\* cv_.wait(lowPriorityLock_, pred) finds the predicate false and waits.
PrefLowWait ==
  /\ strategy = Preferenced
  /\ pc[Low] = "pred"
  /\ ~PrefLowPredicate
  /\ EnterWait(Low)
  /\ PrefFrame
  /\ UNCHANGED <<dataHeld_, highPriorityWaiting_, lowPriorityLock_, highPriorityLock_>>
  /\ GhostKeep

\* dataHeld_ = true in lockLowPriority
PrefLowHold ==
  /\ strategy = Preferenced
  /\ pc[Low] = "hold"
  /\ dataHeld_' = TRUE
  /\ Goto(Low, "unlock")
  /\ PrefFrame
  /\ UNCHANGED <<dataMutex_, highPriorityWaiting_, lowPriorityLock_,
                 highPriorityLock_, cv_>>
  /\ GhostKeep

\* lowPriorityLock_.unlock(): lockLowPriority returns.
PrefLowReturn ==
  /\ strategy = Preferenced
  /\ pc[Low] = "unlock"
  /\ dataMutex_' = "none"
  /\ lowPriorityLock_' = FALSE
  /\ Goto(Low, "cs")
  /\ PrefFrame
  /\ UNCHANGED <<dataHeld_, highPriorityWaiting_, highPriorityLock_, cv_>>
  /\ GhostLowAcquired

\* The work of a worker ends and it enters its unlock method, whose first
\* statement is a lock() of its handle.
PrefEndWork(t) ==
  /\ strategy = Preferenced
  /\ pc[t] = "cs"
  /\ Goto(t, "ulock")
  /\ PrefFrame
  /\ UNCHANGED <<dataMutex_, dataHeld_, highPriorityWaiting_, lowPriorityLock_,
                 highPriorityLock_, cv_>>
  /\ GhostKeep

\* dataHeld_ = false in unlockLowPriority
PrefLowClear ==
  /\ strategy = Preferenced
  /\ pc[Low] = "uclear"
  /\ dataHeld_' = FALSE
  /\ Goto(Low, "uunlock")
  /\ PrefFrame
  /\ UNCHANGED <<dataMutex_, highPriorityWaiting_, lowPriorityLock_,
                 highPriorityLock_, cv_>>
  /\ GhostLowReleased

\* lowPriorityLock_.unlock() in unlockLowPriority
PrefLowUnlock ==
  /\ strategy = Preferenced
  /\ pc[Low] = "uunlock"
  /\ dataMutex_' = "none"
  /\ lowPriorityLock_' = FALSE
  /\ Goto(Low, "notify")
  /\ PrefFrame
  /\ UNCHANGED <<dataHeld_, highPriorityWaiting_, highPriorityLock_, cv_>>
  /\ GhostKeep

\* highPriorityLock_.lock(), in lockHighPriority and in unlockHighPriority
PrefHighLock ==
  /\ strategy = Preferenced
  /\ pc[High] \in {"lock", "ulock"}
  /\ dataMutex_ = "none"
  /\ dataMutex_' = High
  /\ highPriorityLock_' = TRUE
  /\ Goto(High, IF pc[High] = "lock" THEN "pending" ELSE "uclear")
  /\ PrefFrame
  /\ UNCHANGED <<dataHeld_, highPriorityWaiting_, lowPriorityLock_, cv_>>
  /\ GhostKeep

\* lockHighPriority without the store of highPriorityWaiting_.
PrefHighPendingNotSet ==
  /\ strategy = Preferenced
  /\ pc[High] = "pending"
  /\ Goto(High, "pred")
  /\ PrefFrame
  /\ UNCHANGED <<dataMutex_, dataHeld_, highPriorityWaiting_, lowPriorityLock_,
                 highPriorityLock_, cv_>>
  /\ GhostKeep

\* highPriorityWaiting_ = true
PrefHighPending ==
  /\ strategy = Preferenced
  /\ pc[High] = "pending"
  /\ highPriorityWaiting_' = TRUE
  /\ Goto(High, "pred")
  /\ PrefFrame
  /\ UNCHANGED <<dataMutex_, dataHeld_, lowPriorityLock_, highPriorityLock_, cv_>>
  /\ GhostKeep

\* cv_.wait(lowPriorityLock_, pred) finds the predicate true.
PrefHighPass ==
  /\ strategy = Preferenced
  /\ pc[High] = "pred"
  /\ PrefHighPredicate
  /\ Goto(High, "hold")
  /\ PrefFrame
  /\ UNCHANGED <<dataMutex_, dataHeld_, highPriorityWaiting_, lowPriorityLock_,
                 highPriorityLock_, cv_>>
  /\ GhostKeep

\* cv_.wait(lowPriorityLock_, pred) finds the predicate false and calls
\* wait(lowPriorityLock_).  The handle is the low-priority worker's; the
\* caller holds dataMutex_ through highPriorityLock_.  When the handle does
\* not own the mutex the call has undefined behaviour, with two outcomes.
\* This one: wait works on the handle's mutex, dataMutex_, which the caller
\* holds, and releases it.
PrefHighWait ==
  /\ strategy = Preferenced
  /\ pc[High] = "pred"
  /\ ~PrefHighPredicate
  /\ EnterWait(High)
  /\ PrefFrame
  /\ UNCHANGED <<dataHeld_, highPriorityWaiting_, lowPriorityLock_, highPriorityLock_>>
  /\ GhostKeep

\* The other outcome: wait checks owns_lock() of the handle, throws
\* system_error, and the uncaught exception ends the process.
PrefHighWaitThrows ==
  /\ strategy = Preferenced
  /\ pc[High] = "pred"
  /\ ~PrefHighPredicate
  /\ ~lowPriorityLock_
  /\ pc' = [t \in Threads |-> "terminated"]
  /\ ctl' = "terminated"
  /\ UNCHANGED <<CtorArgs, shouldRun_, StrategyVars>>
  /\ GhostKeep

\* dataHeld_ = true in lockHighPriority
PrefHighHold ==
  /\ strategy = Preferenced
  /\ pc[High] = "hold"
  /\ dataHeld_' = TRUE
  /\ Goto(High, "unlock")
  /\ PrefFrame
  /\ UNCHANGED <<dataMutex_, highPriorityWaiting_, lowPriorityLock_,
                 highPriorityLock_, cv_>>
  /\ GhostKeep

\* highPriorityLock_.unlock(): lockHighPriority returns.
PrefHighReturn ==
  /\ strategy = Preferenced
  /\ pc[High] = "unlock"
  /\ dataMutex_' = "none"
  /\ highPriorityLock_' = FALSE
  /\ Goto(High, "cs")
  /\ PrefFrame
  /\ UNCHANGED <<dataHeld_, highPriorityWaiting_, lowPriorityLock_, cv_>>
  /\ GhostKeep

\* dataHeld_ = false in unlockHighPriority
PrefHighClearHeld ==
  /\ strategy = Preferenced
  /\ pc[High] = "uclear"
  /\ dataHeld_' = FALSE
  /\ Goto(High, "uclear2")
  /\ PrefFrame
  /\ UNCHANGED <<dataMutex_, highPriorityWaiting_, lowPriorityLock_,
                 highPriorityLock_, cv_>>
  /\ GhostKeep

\* unlockHighPriority without the store to highPriorityWaiting_.
PrefHighKeepsWaiting ==
  /\ strategy = Preferenced
  /\ pc[High] = "uclear2"
  /\ Goto(High, "uunlock")
  /\ PrefFrame
  /\ UNCHANGED <<dataMutex_, dataHeld_, highPriorityWaiting_, lowPriorityLock_,
                 highPriorityLock_, cv_>>
  /\ GhostKeep

\* highPriorityWaiting_ = false in unlockHighPriority
PrefHighClearWaiting ==
  /\ strategy = Preferenced
  /\ pc[High] = "uclear2"
  /\ highPriorityWaiting_' = FALSE
  /\ Goto(High, "uunlock")
  /\ PrefFrame
  /\ UNCHANGED <<dataMutex_, dataHeld_, lowPriorityLock_, highPriorityLock_, cv_>>
  /\ GhostKeep

\* highPriorityLock_.unlock() in unlockHighPriority
PrefHighUnlock ==
  /\ strategy = Preferenced
  /\ pc[High] = "uunlock"
  /\ dataMutex_' = "none"
  /\ highPriorityLock_' = FALSE
  /\ Goto(High, "notify")
  /\ PrefFrame
  /\ UNCHANGED <<dataHeld_, highPriorityWaiting_, lowPriorityLock_, cv_>>
  /\ GhostKeep

----------------------------------------------------------------------------
(* The run                                                                 *)

Controller ==
  \/ CtlSpawnLow
  \/ CtlSpawnHigh
  \/ CtlStop
  \/ CtlJoinLow
  \/ CtlJoinHigh
  \/ CtlNextRun

LowWorker ==
  \/ LowLoop
  \/ PlainLowLock
  \/ PlainLowUnlock
  \/ GatedLowLock
  \/ GatedLowUnlock
  \/ FlaggedLowLock
  \/ FlaggedLowEnter
  \/ FlaggedLowWait
  \/ FlaggedLowUnlock
  \/ PrefLowLock
  \/ PrefLowPass
  \/ PrefLowWait
  \/ PrefLowHold
  \/ PrefLowReturn
  \/ PrefEndWork(Low)
  \/ PrefLowClear
  \/ PrefLowUnlock
  \/ CvWake(Low)
  \/ NotifyAll(Low)

HighWorker ==
  \/ HighLoop
  \/ HighCall
  \/ PlainHighLock
  \/ PlainHighUnlock
  \/ GatedHighLock
  \/ GatedHighUnlock
  \/ FlaggedHighSetFlag
  \/ FlaggedHighLock
  \/ FlaggedHighClear
  \/ FlaggedHighUnlock
  \/ PrefHighLock
  \/ PrefHighPending
  \/ PrefHighPass
  \/ PrefHighWait
  \/ PrefHighWaitThrows
  \/ PrefHighHold
  \/ PrefHighReturn
  \/ PrefEndWork(High)
  \/ PrefHighClearHeld
  \/ PrefHighClearWaiting
  \/ PrefHighUnlock
  \/ CvWake(High)
  \/ NotifyAll(High)

Spurious == \E t \in Threads : SpuriousWakeup(t)

Next == Controller \/ LowWorker \/ HighWorker \/ Spurious

Spec == Init /\ [][Next]_vars

\* Fair scheduling: the controller runs when it can, and a worker that can
\* take a step again and again (a lock() whose mutex is free again and again)
\* eventually takes one.  A spurious wake-up is never owed.
FairSpec ==
  /\ Spec
  /\ WF_vars(Controller)
  /\ SF_vars(LowWorker)
  /\ SF_vars(HighWorker)

\* Heavy low-priority contention: the low-priority work lasts, and lasts
\* longer than the idle time of the high-priority worker.  The durations
\* are lower bounds of the sleep_for calls only, so the workload orders no
\* step of one worker against a step of the other.
HeavyLowContention ==
  lowPrioWorkTime_ > 0 /\ lowPrioWorkTime_ > highPrioSleepTime_

----------------------------------------------------------------------------
(* Properties                                                              *)

\* Positions of the high-priority worker in the Preferenced strategy at
\* which highPriorityWaiting_ has been set and not yet cleared.
PendingLabels == {"pred", "wait", "hold", "unlock", "cs", "ulock", "uclear", "uclear2"}

\* Positions of the high-priority worker in the Flagged strategy from the
\* setting of waiting_ to the release of the lock in unlockHighPriority.
InFlightLabels == {"lock", "clear", "cs"}

\* C1. Mutual exclusion, all four strategies: the low-priority worker is
\* never between a returned lockLowPriority and its unlockLowPriority while
\* the high-priority worker is between a returned lockHighPriority and its
\* unlockHighPriority.
MutualExclusion == ~(pc[Low] = "cs" /\ pc[High] = "cs")

\* A worker holds the resource while the other is blocked in its lock call.
MutualExclusionWitness ==
  /\ strategy = Preferenced
  /\ pc[High] = "cs"
  /\ pc[Low] = "wait"

\* C2. Termination: once shouldRun_ is false, both workers leave their
\* loops, both joins complete and run() returns.
Termination == (shouldRun_ = FALSE) ~> (ctl = "done")

\* C3. No preemption, all four strategies: a lockHighPriority entered while
\* a low-priority critical region is open does not return before the
\* low-priority worker has given the resource up in unlockLowPriority.
NoPreemption == pc[High] = "cs" => ~lowHeldAtCall

\* lockHighPriority was entered during a low-priority critical region and
\* is waiting for it.
NoPreemptionWitness ==
  /\ strategy = Preferenced
  /\ lowHeldAtCall
  /\ pc[High] = "wait"
  /\ pc[Low] = "cs"

\* C4. Preferenced: the wait of lockLowPriority is left only from a state
\* in which dataHeld_ and highPriorityWaiting_ are both false, lockLowPriority
\* then sets dataHeld_, and it never returns while highPriorityWaiting_ is set.
LowEntersOnlyWhenFree ==
  [][strategy = Preferenced =>
       /\ (pc[Low] = "pred" /\ pc'[Low] = "hold")
            => (~dataHeld_ /\ ~highPriorityWaiting_)
       /\ (pc[Low] = "hold" /\ pc'[Low] = "unlock") => dataHeld_'
       /\ (pc[Low] = "unlock" /\ pc'[Low] = "cs")
            => (dataHeld_ /\ ~highPriorityWaiting_)]_vars

\* The low-priority worker waits although the resource is free, because a
\* high-priority request is pending.
LowEntersOnlyWhenFreeWitness ==
  /\ strategy = Preferenced
  /\ pc[Low] = "wait"
  /\ highPriorityWaiting_
  /\ ~dataHeld_

\* C5. Flagged: no lockLowPriority returns while a high-priority
\* acquisition is in flight, from the setting of waiting_ to the release in
\* unlockHighPriority.
NoLowEntryWhileInFlight ==
  [][(strategy = Flagged /\ pc[Low] = "pred" /\ pc'[Low] = "cs")
       => pc[High] \notin InFlightLabels]_vars

\* The flag turned the low-priority worker away while lockHighPriority is
\* still waiting for the lock.
NoLowEntryWhileInFlightWitness ==
  /\ strategy = Flagged
  /\ pc[Low] = "wait"
  /\ pc[High] = "lock"
  /\ waiting_

\* C6, as claimed. Flagged: waiting_ is true for the whole time the
\* high-priority worker holds the resource.
FlagHeldWhileHighHolds == (strategy = Flagged /\ pc[High] = "cs") => waiting_

\* C6, amended. Flagged: waiting_ is true exactly from its setting at the
\* start of lockHighPriority until lockHighPriority clears it, after it has
\* obtained the lock and before it returns; it is false whenever the
\* high-priority worker holds the resource.
FlagOnlyWhileAcquiring ==
  strategy = Flagged => (waiting_ <=> pc[High] \in {"lock", "clear"})

\* The high-priority worker holds the resource and the flag is down.
FlagOnlyWhileAcquiringWitness ==
  /\ strategy = Flagged
  /\ pc[High] = "cs"
  /\ ~waiting_

\* C7, as claimed. Preferenced: from the moment lockHighPriority is entered
\* the low-priority worker completes no further acquisition.
PendingFromCall ==
  (strategy = Preferenced /\ (HighInLock \/ pc[High] = "cs")) => overtakes = 0

\* C7, amended. Preferenced: lockHighPriority first acquires dataMutex_ and
\* only then sets highPriorityWaiting_, which stays set until
\* unlockHighPriority clears it; a lockLowPriority can return after
\* lockHighPriority was entered only while lockHighPriority is still waiting
\* for dataMutex_.
PendingAfterInternalLock ==
  /\ []((strategy = Preferenced /\ pc[High] # "terminated") =>
          (highPriorityWaiting_ <=> pc[High] \in PendingLabels))
  /\ [][(strategy = Preferenced /\ HighInLock
           /\ pc[Low] = "unlock" /\ pc'[Low] = "cs")
          => (pc[High] = "lock" /\ ~highPriorityWaiting_)]_vars

\* lockLowPriority returned while lockHighPriority was waiting for dataMutex_.
PendingAfterInternalLockWitness ==
  /\ strategy = Preferenced
  /\ pc[High] = "lock"
  /\ overtakes > 0

\* Positions of the high-priority worker inside lockHighPriority before the
\* step that turns the low-priority worker away: the lock of
\* nextToAccessMutex_ (Gated), the store to waiting_ (Flagged), the lock of
\* dataMutex_ (Preferenced).  Plain has no such step.
BeforeCutOff ==
  \/ strategy = Gated /\ pc[High] = "gate"
  \/ strategy = Flagged /\ pc[High] = "flag"
  \/ strategy = Preferenced /\ pc[High] = "lock"

----------------------------------------------------------------------------
(* Plain against Gated, and the two sides of Gated against each other      *)

SwapOwner(o) == IF o = "none" THEN "none" ELSE Other(o)

\* The Gated state with the roles of the two workers exchanged.
SwapGated(s) == [pos |-> [t \in Threads |-> s.pos[Other(t)]],
                 gate |-> SwapOwner(s.gate), data |-> SwapOwner(s.data)]

\* What an observer of the calls, returns and unlocks sees of a Gated state:
\* a worker inside lockLowPriority/lockHighPriority has called and not
\* returned, and the resource belongs to the worker whose lock has returned.
AbsPos(p) == IF p \in {"gate", "data", "ungate"} THEN "lock" ELSE p

Abs(s) == [pos |-> [t \in Threads |-> AbsPos(s.pos[t])],
           mutex |-> IF s.data # "none" /\ s.pos[s.data] = "cs" THEN s.data ELSE "none"]

\* The Gated state that shows a Plain state: nobody holds the gate.
Conc(p) == [pos |-> [t \in Threads |-> IF p.pos[t] = "lock" THEN "gate" ELSE p.pos[t]],
            gate |-> "none", data |-> p.mutex]

\* The states after the three statements of lockLowPriority.
LockLowThrice(s) ==
  UNION {UNION {TwoMutexLockLowPriority(b) : b \in TwoMutexLockLowPriority(a)} :
           a \in TwoMutexLockLowPriority(s)}

\* The states after the three statements of lockHighPriority.
LockHighThrice(s) ==
  UNION {UNION {TwoMutexLockHighPriority(b) : b \in TwoMutexLockHighPriority(a)} :
           a \in TwoMutexLockHighPriority(s)}

\* C8. Gated and Plain have the same observable behaviours.  Every
\* statement of a Gated method is, to the observer, the same worker's step
\* of the Plain method or no step at all; and every step of a Plain method
\* is matched by the statements of the Gated method of the same worker,
\* started with the gate free and ending with the gate free.
GatedEquivalentToPlain ==
  /\ strategy = Gated =>
       LET s == GatedView IN
         /\ \A x \in TwoMutexLockLowPriority(s) :
              Abs(x) \in {Abs(s)} \cup BasicLockLowPriority(Abs(s))
         /\ \A x \in TwoMutexLockHighPriority(s) :
              Abs(x) \in {Abs(s)} \cup BasicLockHighPriority(Abs(s))
         /\ \A x \in TwoMutexUnlockLowPriority(s) :
              Abs(x) \in BasicUnlockLowPriority(Abs(s))
         /\ \A x \in TwoMutexUnlockHighPriority(s) :
              Abs(x) \in BasicUnlockHighPriority(Abs(s))
  /\ strategy = Plain =>
       LET p == PlainView IN
         /\ \A x \in BasicLockLowPriority(p) :
              Conc(x) \in LockLowThrice(Conc(p))
         /\ \A x \in BasicLockHighPriority(p) :
              Conc(x) \in LockHighThrice(Conc(p))
         /\ \A x \in BasicUnlockLowPriority(p) :
              Conc(x) \in TwoMutexUnlockLowPriority(Conc(p))
         /\ \A x \in BasicUnlockHighPriority(p) :
              Conc(x) \in TwoMutexUnlockHighPriority(Conc(p))

\* The high-priority worker holds the gate and is blocked on the data lock
\* that the low-priority worker holds: a Gated state with no Plain twin.
GatedEquivalentToPlainWitness ==
  /\ strategy = Gated
  /\ pc[High] = "data"
  /\ nextToAccessMutex_ = High
  /\ dataMutex_ = Low
  /\ pc[Low] = "cs"

\* C9. Gated is symmetric and serves in gate-arrival order.  In every
\* reachable state each statement of a low-priority method does, with the
\* roles exchanged, what the statement of the high-priority method does, and
\* conversely; and while a worker holds the gate without the data lock, the
\* other worker can take neither the gate nor the data lock.
GatedSymmetricArrivalOrder ==
  strategy = Gated =>
    LET s == GatedView IN
      /\ TwoMutexLockHighPriority(SwapGated(s))
           = {SwapGated(x) : x \in TwoMutexLockLowPriority(s)}
      /\ TwoMutexLockLowPriority(SwapGated(s))
           = {SwapGated(x) : x \in TwoMutexLockHighPriority(s)}
      /\ TwoMutexUnlockHighPriority(SwapGated(s))
           = {SwapGated(x) : x \in TwoMutexUnlockLowPriority(s)}
      /\ TwoMutexUnlockLowPriority(SwapGated(s))
           = {SwapGated(x) : x \in TwoMutexUnlockHighPriority(s)}
      /\ (s.gate = Low /\ s.data # Low) => TwoMutexLockHighPriority(s) = {}
      /\ (s.gate = High /\ s.data # High) => TwoMutexLockLowPriority(s) = {}
      /\ \A x \in TwoMutexLockLowPriority(s) :
           (x.data = Low /\ s.data # Low) => s.gate = Low
      /\ \A x \in TwoMutexLockHighPriority(s) :
           (x.data = High /\ s.data # High) => s.gate = High

\* A high-priority request is queued behind the gate, which the
\* low-priority worker holds while it waits for the data lock.
GatedSymmetricArrivalOrderWitness ==
  /\ strategy = Gated
  /\ pc[Low] = "data"
  /\ nextToAccessMutex_ = Low
  /\ dataMutex_ = "none"
  /\ pc[High] = "gate"

----------------------------------------------------------------------------
(* The sweep, the constructor and the stop flag                            *)

\* The state of a strategy instance after its construction.
InstanceInitial ==
  /\ mutex_ = "none"
  /\ dataMutex_ = "none"
  /\ nextToAccessMutex_ = "none"
  /\ ~waiting_
  /\ ~dataHeld_
  /\ ~highPriorityWaiting_
  /\ ~lowPriorityLock_
  /\ ~highPriorityLock_
  /\ cv_ = {}

\* C11. Every run begins with its strategy instance in the initial state:
\* when run() has returned, the instance, which main constructs once and
\* uses again in later runs, has all its locks free, no lock handle owned,
\* all flags false and no waiter, and so has it when the next run starts.
InstanceFreshBetweenRuns == ctl \in {"done", "spawnLow"} => InstanceInitial

\* A run of Preferenced in which the high-priority worker completed an
\* acquisition after the stop has returned.
InstanceFreshBetweenRunsWitness ==
  /\ ctl = "done"
  /\ strategy = Preferenced
  /\ pairsAfterStop[High] = 1

\* C12. A ContentionTest constructed with a non-positive low-priority work,
\* high-priority work or high-priority idle duration starts no run: no
\* worker is ever spawned.
ConfigErrorsRejected ==
  (lowPrioWorkTime_ <= 0 \/ highPrioWorkTime_ <= 0 \/ highPrioSleepTime_ <= 0)
    => \A t \in Threads : pc[t] = "notStarted"

\* C13. shouldRun_ is true until the controller's store in run() and false
\* from then on until run() has returned; the only step of a run that
\* changes it is that store, a step of the controller in which no worker
\* moves, and it is true again only in the next ContentionTest.
StopFlagWrittenOnce ==
  /\ [](ctl \in {"spawnLow", "spawnHigh", "sleep"} => shouldRun_)
  /\ [](ctl \in {"joinLow", "joinHigh", "done"} => ~shouldRun_)
  /\ [][shouldRun_' # shouldRun_ =>
         \/ /\ ctl = "sleep" /\ ctl' = "joinLow"
            /\ shouldRun_ /\ ~shouldRun_'
            /\ pc' = pc
         \/ /\ ctl = "done" /\ ctl' = "spawnLow"
            /\ shouldRun_']_vars

\* The flag is down and both workers, which last read it as true, are
\* still inside their iterations.
StopFlagWrittenOnceWitness ==
  /\ ctl = "joinLow"
  /\ ~shouldRun_
  /\ pc[Low] = "cs"
  /\ pc[High] = "sleep"

----------------------------------------------------------------------------
(* The worker loops: stop and pairing                                      *)

\* Positions inside an unlock method of Flagged and Preferenced.
UnlockLabels == {"ulock", "uclear", "uclear2", "uunlock", "notify"}

\* Positions of a Preferenced worker at which it has set dataHeld_ and not
\* yet cleared it.
HeldLabels == {"unlock", "cs", "ulock", "uclear"}

\* Where a worker is with respect to its calls: outside every call and not
\* holding, inside a lock call, between a returned lock call and the unlock
\* call, inside an unlock call.
Region(l) ==
  IF l \in OutLabels THEN "out"
  ELSE IF l \in HighLockLabels THEN "locking"
  ELSE IF l \in UnlockLabels THEN "unlocking"
  ELSE "holding"

\* The worker t has the resource, as the state of the strategy tells it.
Holds(t) ==
  IF strategy = Plain THEN mutex_ = t
  ELSE IF strategy = Gated THEN dataMutex_ = t
  ELSE IF strategy = Flagged
  THEN dataMutex_ = t /\ (IF t = Low THEN lowPriorityLock_ ELSE highPriorityLock_)
  ELSE dataHeld_ /\ pc[Other(t)] \notin HeldLabels

\* C14. The stop flag is read at the top of the loop only.  A worker starts
\* an iteration only on reading the flag as true and leaves its loop only
\* from the top, on reading it as false; after the flag became false it
\* completes at most one more lock/unlock pair; and a worker that has left
\* its loop holds nothing.
StopCheckedAtLoopTop ==
  /\ [](\A t \in Threads : pairsAfterStop[t] <= 1)
  /\ [](\A t \in Threads : pc[t] = "finished" =>
          /\ ~Holds(t)
          /\ mutex_ # t /\ dataMutex_ # t /\ nextToAccessMutex_ # t)
  /\ [][\A t \in Threads :
          /\ (pc[t] # "finished" /\ pc'[t] = "finished")
               => (pc[t] = "loop" /\ ~shouldRun_)
          /\ (pc[t] = "loop" /\ pc'[t] \notin {"loop", "finished", "terminated"})
               => shouldRun_]_vars

\* The high-priority worker was asleep when the flag fell, went through its
\* lock/unlock pair and left its loop.
StopCheckedAtLoopTopWitness ==
  /\ strategy = Flagged
  /\ pc[High] = "finished"
  /\ pairsAfterStop[High] = 1
  /\ pc[Low] = "cs"

\* C15. Strict pairing.  Each worker goes from outside to its lock call,
\* from the lock call to holding, from holding to its unlock call and from
\* there outside again, in this order only; it has not the resource when it
\* calls lock and has it when it calls unlock; and the steps that move the
\* state of the other class (its lock handle, its flags) are never its own.
StrictPairing ==
  /\ [](\A t \in Threads :
          /\ (Region(pc[t]) = "out" /\ pc[t] # "terminated") => ~Holds(t)
          /\ Region(pc[t]) = "holding" => Holds(t))
  /\ [][\A t \in Threads :
          Region(pc'[t]) # Region(pc[t]) =>
            \/ pc'[t] = "terminated"
            \/ <<Region(pc[t]), Region(pc'[t])>> \in
                 {<<"out", "locking">>, <<"locking", "holding">>,
                  <<"holding", "unlocking">>, <<"holding", "out">>,
                  <<"unlocking", "out">>}]_vars
  /\ [][/\ (highPriorityLock_' # highPriorityLock_
               \/ highPriorityWaiting_' # highPriorityWaiting_
               \/ waiting_' # waiting_) => pc'[Low] = pc[Low]
        /\ lowPriorityLock_' # lowPriorityLock_ => pc'[High] = pc[High]]_vars

\* The low-priority worker is inside unlockLowPriority while the
\* high-priority worker is inside lockHighPriority.
StrictPairingWitness ==
  /\ strategy = Preferenced
  /\ pc[Low] = "uclear"
  /\ pc[High] = "wait"

----------------------------------------------------------------------------
(* Plain: no priority.  Flagged and Preferenced: the lock handles          *)

\* The Plain state with the roles of the two workers exchanged.
SwapPlain(s) == [pos |-> [t \in Threads |-> s.pos[Other(t)]],
                 mutex |-> SwapOwner(s.mutex)]

\* C16. Plain makes no difference between the classes and protects nobody
\* from starvation.  lockLowPriority and lockHighPriority are one operation
\* with the roles exchanged, so when both workers are inside their lock call
\* either can get the lock; and whenever lockHighPriority waits during a
\* low-priority critical region, the low-priority worker alone, by
\* unlockLowPriority, the next call of lockLowPriority and its return, comes
\* back to the very same state, lockHighPriority still waiting: the number
\* of low-priority acquisitions before lockHighPriority returns has no bound.
PlainNoPriority ==
  strategy = Plain =>
    LET s == PlainView IN
      /\ BasicLockHighPriority(SwapPlain(s))
           = {SwapPlain(x) : x \in BasicLockLowPriority(s)}
      /\ BasicLockLowPriority(SwapPlain(s))
           = {SwapPlain(x) : x \in BasicLockHighPriority(s)}
      /\ (s.pos[Low] = "lock" /\ s.pos[High] = "lock") =>
           (BasicLockLowPriority(s) # {} /\ BasicLockHighPriority(s) # {})
      /\ (s.pos[High] = "lock" /\ s.pos[Low] = "cs") =>
           \E a \in BasicUnlockLowPriority(s) :
             /\ a.pos[High] = "lock"
             /\ s \in BasicLockLowPriority([a EXCEPT !.pos[Low] = "lock"])

\* lockHighPriority has been waiting while the low-priority worker acquired
\* the lock as many times as the history counter can tell, and holds it.
PlainNoPriorityWitness ==
  /\ strategy = Plain
  /\ pc[High] = "lock"
  /\ pc[Low] = "cs"
  /\ overtakes = MaxOvertakes

\* The lock handle a worker locks and unlocks in its lock and unlock methods.
HandleOf(t) == IF t = Low THEN "lowPriorityLock_" ELSE "highPriorityLock_"

\* The lock handle a worker passes to cv_.wait: lowPriorityLock_ in
\* lockLowPriority of both strategies, and lowPriorityLock_ again in
\* lockHighPriority of Preferenced.
WaitHandle(t) == "lowPriorityLock_"

\* owns_lock() of a handle.
OwnsLock(h) == IF h = "lowPriorityLock_" THEN lowPriorityLock_ ELSE highPriorityLock_

\* C17. Lock-handle discipline in Flagged and Preferenced: a worker inside a
\* condition-variable wait has passed its own lock handle, which it has
\* locked and owns.
HandleDiscipline ==
  \A t \in Threads :
    (strategy \in {Flagged, Preferenced} /\ pc[t] = "wait") =>
      (WaitHandle(t) = HandleOf(t) /\ OwnsLock(WaitHandle(t)))

\* C18. Preferenced, lockHighPriority entered during a low-priority critical
\* region: the two workers are never blocked on each other, the
\* high-priority worker waiting inside lockHighPriority with dataMutex_
\* still locked and the low-priority worker waiting for dataMutex_ in
\* unlockLowPriority; and a lockHighPriority that finds dataHeld_ set
\* returns eventually.
HighWaitLetsLowRelease ==
  /\ []~(strategy = Preferenced /\ pc[High] = "wait" /\ dataMutex_ = High
          /\ pc[Low] = "ulock")
  /\ (strategy = Preferenced /\ pc[High] = "pred" /\ dataHeld_) ~> (pc[High] = "cs")

----------------------------------------------------------------------------
(* Flagged and Preferenced: wake-ups and the two flags                     *)

\* The predicate of the wait a worker is in.
WaitPredicate(t) ==
  IF strategy = Flagged THEN FlaggedLowPredicate
  ELSE IF t = Low THEN PrefLowPredicate
  ELSE PrefHighPredicate

\* The worker is blocked inside cv_.wait and no notification has reached it.
Parked(t) == pc[t] = "wait" /\ t \in cv_

\* C19. No lost wake-up in Flagged and Preferenced: whenever a worker is
\* parked in a wait whose predicate is true, the other worker, which made it
\* true, has not yet reached the end of its unlock method: its notify_all is
\* still to come.
NoLostWakeup ==
  \A t \in Threads :
    (strategy \in {Flagged, Preferenced} /\ Parked(t) /\ WaitPredicate(t))
      => pc[Other(t)] \in {"cs", "uunlock", "notify"}

\* The low-priority worker is parked, unlockHighPriority has made its
\* predicate true and is about to notify.
NoLostWakeupWitness ==
  /\ strategy = Preferenced
  /\ Parked(Low)
  /\ PrefLowPredicate
  /\ pc[High] = "notify"

\* Positions of a Preferenced worker whose next statement reads or writes
\* dataHeld_ or highPriorityWaiting_.
AccessLabels == {"pending", "pred", "hold", "uclear", "uclear2"}

====
